---- MODULE Spec2Model ----
(***************************************************************************)
(* Random chat bot: the Firestore document store (database.py), the       *)
(* in-memory spam protection (spam_protection.py) and the update handlers *)
(* (bot.py, admin.py).                                                     *)
(*                                                                         *)
(* Scheduling.  main() builds the Application with its defaults, so the   *)
(* framework awaits one handler to its end before it takes the next       *)
(* update; and every Database method is an `async def` whose body holds   *)
(* only synchronous Firestore calls, so awaiting it never yields to the   *)
(* event loop.  A handler is therefore one atomic step of the state       *)
(* machine, and "concurrent" requests are requests handled in any order.  *)
(*                                                                         *)
(* Firestore.  document.set() creates or overwrites; document.update()    *)
(* raises NotFound when the document does not exist; an exception leaves  *)
(* the writes already made in place and ends the handler.                 *)
(***************************************************************************)
EXTENDS Integers, Sequences, FiniteSets, Bags, TLC

\* ---------------------------------------------------------------- bounds
NumIds == 3
MaxTime == 3
MaxChatDocs == 2
MaxTotalChats == 2

\* ------------------------------------------------------------- constants
COMMAND_COOLDOWN_SECONDS == 3
MAX_MESSAGES_PER_MINUTE == 20
\* timedelta(minutes=1), in seconds
ONE_MINUTE == 60

Ids == 1 .. NumIds
\* Python's None; Telegram identities are positive integers
None == 0
\* config.ADMIN_IDS, read from the environment
ADMIN_IDS == {1}

VARIABLES
    db,        \* the Firestore client: one field per collection
    spam,      \* the SpamProtection instance
    now,       \* datetime.now(), in seconds
    obs        \* the scenario being observed, if any: which requests are still to come

vars == <<db, spam, now, obs>>

\* ------------------------------------------------------------ database.py

NewUser ==
    [blocked |-> FALSE, current_chat_with |-> None,
     total_chats |-> 0, reports_count |-> 0]

\* a Database call's outcome: the store after it, whether it returned
\* normally, and its return value
Ret(d, ok, val) == [db |-> d, ok |-> ok, val |-> val]

create_user(d, u) ==
    [d EXCEPT !.users = (u :> NewUser) @@ d.users]

user_exists(d, u) == u \in DOMAIN d.users

is_blocked(d, u) ==
    IF user_exists(d, u) THEN d.users[u].blocked ELSE FALSE

block_user(d, u) ==
    IF user_exists(d, u)
    THEN Ret([d EXCEPT !.users[u].blocked = TRUE], TRUE, None)
    ELSE Ret(d, FALSE, None)

unblock_user(d, u) ==
    IF user_exists(d, u)
    THEN Ret([d EXCEPT !.users[u].blocked = FALSE], TRUE, None)
    ELSE Ret(d, FALSE, None)

get_current_chat(d, u) ==
    IF user_exists(d, u) THEN d.users[u].current_chat_with ELSE None

\* a search that forgets to look for a running chat
is_in_chat_never(d, u) == FALSE

is_in_chat(d, u) == get_current_chat(d, u) # None

\* chat_ref.set, then the two user updates in order; the second and third
\* writes need the user's document
create_chat(d, u1, u2) ==
    LET d1 == [d EXCEPT !.active_chats = @ (+) SetToBag({<<u1, u2>>})]
        d2 == [d1 EXCEPT !.users[u1].current_chat_with = u2,
                         !.users[u1].total_chats = @ + 1]
        d3 == [d2 EXCEPT !.users[u2].current_chat_with = u1,
                         !.users[u2].total_chats = @ + 1]
    IN  IF ~user_exists(d1, u1) THEN Ret(d1, FALSE, None)
        ELSE IF ~user_exists(d2, u2) THEN Ret(d2, FALSE, None)
        ELSE Ret(d3, TRUE, None)

\* query where(field == u), delete every document it streams
DeleteChats(chats, field, u) ==
    LET dom == {c \in DOMAIN chats : c[field] # u}
    IN  [c \in dom |-> chats[c]]

\* an end that clears the partner's field and not the caller's
end_chat_keeps_caller(d, u) ==
    LET p  == get_current_chat(d, u)
        d2 == [d EXCEPT !.users[p].current_chat_with = None]
        c1 == DeleteChats(d2.active_chats, 1, u)
        c2 == DeleteChats(c1, 2, u)
    IN  IF p = None THEN Ret(d, TRUE, None)
        ELSE IF ~user_exists(d, p) THEN Ret(d, FALSE, None)
        ELSE Ret([d2 EXCEPT !.active_chats = c2], TRUE, p)

end_chat(d, u) ==
    LET p  == get_current_chat(d, u)
        d1 == [d EXCEPT !.users[u].current_chat_with = None]
        d2 == [d1 EXCEPT !.users[p].current_chat_with = None]
        c1 == DeleteChats(d2.active_chats, 1, u)
        c2 == DeleteChats(c1, 2, u)
    IN  IF p = None THEN Ret(d, TRUE, None)
        ELSE IF ~user_exists(d1, p) THEN Ret(d1, FALSE, None)
        ELSE Ret([d2 EXCEPT !.active_chats = c2], TRUE, p)

Without(q, u) == SelectSeq(q, LAMBDA x : x # u)

\* The queue document is keyed by the identity, so set() replaces an
\* existing entry and gives it a fresh added_at.  waiting_queue is kept in
\* added_at order (successive datetime.now() readings).
add_to_queue(d, u) ==
    [d EXCEPT !.waiting_queue = Append(Without(@, u), u)]

\* a delete that empties the collection
remove_from_queue_all(d, u) == [d EXCEPT !.waiting_queue = <<>>]

\* a delete that does not reach the collection
remove_from_queue_noop(d, u) == d

remove_from_queue(d, u) ==
    [d EXCEPT !.waiting_queue = Without(@, u)]

InQueue(q, u) == \E i \in 1 .. Len(q) : q[i] = u

\* a lookup that never finds the queue document
is_in_queue_never(d, u) == FALSE

is_in_queue(d, u) == InQueue(d.waiting_queue, u)

\* the query ordered newest first
get_next_from_queue_newest(d) ==
    IF d.waiting_queue # <<>>
    THEN d.waiting_queue[Len(d.waiting_queue)] ELSE None

get_next_from_queue(d) ==
    IF d.waiting_queue # <<>> THEN Head(d.waiting_queue) ELSE None

\* a set of identities as the list a query returns, in document order
RECURSIVE Ascending(_)
Ascending(S) ==
    IF S = {} THEN <<>>
    ELSE LET x == CHOOSE y \in S : \A z \in S : y <= z
         IN  <<x>> \o Ascending(S \ {x})

\* a listing that does not filter on the blocked field
get_all_user_ids_everyone(d) == Ascending(DOMAIN d.users)

\* the user_id of every users document with blocked == False
get_all_user_ids(d) ==
    Ascending({u \in DOMAIN d.users : ~d.users[u].blocked})

\* a report filed against the reporter itself
NewReport_self(reporter_id, reported_id) ==
    [reporter_id |-> reporter_id, reported_id |-> reporter_id, resolved |-> FALSE]

NewReport(reporter_id, reported_id) ==
    [reporter_id |-> reporter_id, reported_id |-> reported_id, resolved |-> FALSE]

\* report_ref.set on a fresh document, then the update of the reported
\* user's document, which must exist
create_report(d, reporter_id, reported_id) ==
    LET d1 == [d EXCEPT !.reports = Append(@, NewReport(reporter_id, reported_id))]
    IN  IF ~user_exists(d1, reported_id) THEN Ret(d1, FALSE, None)
        ELSE Ret([d1 EXCEPT !.users[reported_id].reports_count = @ + 1],
                 TRUE, None)

\* ------------------------------------------------------ spam_protection.py

MessageHistory(sp, u) ==
    IF u \in DOMAIN sp.message_history THEN sp.message_history[u] ELSE <<>>

\* an eviction that also drops the timestamps of the last half minute
RecentMessages_half(sp, u, t) ==
    SelectSeq(MessageHistory(sp, u), LAMBDA ts : 2 * (t - ts) < ONE_MINUTE)

\* the timestamps the list comprehension keeps: ts > one_minute_ago
RecentMessages(sp, u, t) ==
    SelectSeq(MessageHistory(sp, u), LAMBDA ts : ts > t - ONE_MINUTE)

\* a limiter that lets every message through
check_message_rate_open(sp, u, t) ==
    [spam |-> [sp EXCEPT !.message_history =
                   (u :> Append(RecentMessages(sp, u, t), t)) @@ @],
     val |-> TRUE]

\* the pruned list is stored before the limit is tested, so a refused call
\* still writes it
check_message_rate(sp, u, t) ==
    LET kept == RecentMessages(sp, u, t)
    IN  IF Len(kept) >= MAX_MESSAGES_PER_MINUTE
        THEN [spam |-> [sp EXCEPT !.message_history = (u :> kept) @@ @],
              val |-> FALSE]
        ELSE [spam |-> [sp EXCEPT !.message_history = (u :> Append(kept, t)) @@ @],
              val |-> TRUE]

\* a cooldown that also refuses the command arriving exactly at its end
CooldownAllows_late(sp, u, t) ==
    ~ (u \in DOMAIN sp.command_history
       /\ t <= sp.command_history[u] + COMMAND_COOLDOWN_SECONDS)

CooldownAllows(sp, u, t) ==
    ~ (u \in DOMAIN sp.command_history
       /\ t < sp.command_history[u] + COMMAND_COOLDOWN_SECONDS)

\* a cooldown whose accepted command also clears the identity's messages
check_command_cooldown_wipes(sp, u, t) ==
    IF CooldownAllows(sp, u, t)
    THEN [spam |-> [sp EXCEPT !.command_history = (u :> t) @@ @,
                              !.message_history = (u :> <<>>) @@ @],
          val |-> TRUE]
    ELSE [spam |-> sp, val |-> FALSE]

check_command_cooldown(sp, u, t) ==
    IF CooldownAllows(sp, u, t)
    THEN [spam |-> [sp EXCEPT !.command_history = (u :> t) @@ @], val |-> TRUE]
    ELSE [spam |-> sp, val |-> FALSE]

\* --------------------------------------------------------------- transport

\* A handler's messages in order, each [to, kind, caught]; a delivery to an
\* identity in `down` raises.  An uncaught raise ends the handler: nothing
\* after it is sent.
Msg(to, kind, caught) == [to |-> to, kind |-> kind, caught |-> caught]

Stops(msgs, down, i) == msgs[i].to \in down /\ ~msgs[i].caught

Deliver(msgs, down) ==
    LET stops == {i \in 1 .. Len(msgs) : Stops(msgs, down, i)}
        n == IF stops = {} THEN Len(msgs)
             ELSE CHOOSE i \in stops : \A j \in stops : i <= j
    IN  [i \in 1 .. n |->
            [to |-> msgs[i].to, kind |-> msgs[i].kind,
             ok |-> msgs[i].to \notin down]]

\* what a handler did: the store and limiter after it, and the messages it
\* set out to send (none once a Database call raised)
Done(d, sp, msgs, raised) ==
    [db |-> d, spam |-> sp, msgs |-> msgs, raised |-> raised]

\* ------------------------------------------------------------------ bot.py

start(d, sp, t, u) ==
    LET d1 == IF user_exists(d, u) THEN d ELSE create_user(d, u)
    IN  IF is_blocked(d1, u)
        THEN Done(d1, sp, <<Msg(u, "BLOCKED_USER", FALSE)>>, FALSE)
        ELSE Done(d1, sp, <<Msg(u, "WELCOME_MESSAGE", FALSE)>>, FALSE)

\* a search that neither looks for the searcher in the queue nor compares
\* the entry it takes with the searcher
search_unchecked(d, sp, t, u) ==
    LET cd == check_command_cooldown(sp, u, t)
        sp1 == cd.spam
        partner_id == get_next_from_queue(d)
        d1 == remove_from_queue(d, partner_id)
        cc == create_chat(d1, u, partner_id)
    IN  IF is_blocked(d, u)
        THEN Done(d, sp, <<Msg(u, "BLOCKED_USER", FALSE)>>, FALSE)
        ELSE IF ~cd.val
        THEN Done(d, sp1, <<Msg(u, "COOLDOWN", FALSE)>>, FALSE)
        ELSE IF is_in_chat(d, u)
        THEN Done(d, sp1, <<Msg(u, "ALREADY_IN_CHAT", FALSE)>>, FALSE)
        ELSE IF partner_id # None
        THEN IF cc.ok
             THEN Done(cc.db, sp1, <<Msg(u, "MATCHED_MESSAGE", FALSE),
                                     Msg(partner_id, "MATCHED_MESSAGE", FALSE)>>,
                       FALSE)
             ELSE Done(cc.db, sp1, <<>>, TRUE)
        ELSE Done(add_to_queue(d, u), sp1,
                  <<Msg(u, "SEARCHING_MESSAGE", FALSE)>>, FALSE)

search(d, sp, t, u) ==
    LET cd == check_command_cooldown(sp, u, t)
        sp1 == cd.spam
        partner_id == get_next_from_queue(d)
        d1 == remove_from_queue(d, partner_id)
        cc == create_chat(d1, u, partner_id)
    IN  IF is_blocked(d, u)
        THEN Done(d, sp, <<Msg(u, "BLOCKED_USER", FALSE)>>, FALSE)
        ELSE IF ~cd.val
        THEN Done(d, sp1, <<Msg(u, "COOLDOWN", FALSE)>>, FALSE)
        ELSE IF is_in_chat(d, u)
        THEN Done(d, sp1, <<Msg(u, "ALREADY_IN_CHAT", FALSE)>>, FALSE)
        ELSE IF is_in_queue(d, u)
        THEN Done(d, sp1, <<Msg(u, "ALREADY_SEARCHING", FALSE)>>, FALSE)
        ELSE IF partner_id # None /\ partner_id # u
        THEN IF cc.ok
             THEN Done(cc.db, sp1, <<Msg(u, "MATCHED_MESSAGE", FALSE),
                                     Msg(partner_id, "MATCHED_MESSAGE", FALSE)>>,
                       FALSE)
             ELSE Done(cc.db, sp1, <<>>, TRUE)
        ELSE Done(add_to_queue(d, u), sp1,
                  <<Msg(u, "SEARCHING_MESSAGE", FALSE)>>, FALSE)

end_chat_handler(d, sp, t, u) ==
    LET ec == end_chat(d, u)
    IN  IF ~is_in_chat(d, u)
        THEN IF is_in_queue(d, u)
             THEN Done(remove_from_queue(d, u), sp,
                       <<Msg(u, "SEARCH_CANCELLED", FALSE)>>, FALSE)
             ELSE Done(d, sp, <<Msg(u, "NOT_IN_CHAT", FALSE)>>, FALSE)
        ELSE IF ~ec.ok
        THEN Done(ec.db, sp, <<>>, TRUE)
        ELSE Done(ec.db, sp,
                  <<Msg(u, "YOU_DISCONNECTED", FALSE)>>
                  \o (IF ec.val # None
                      THEN <<Msg(ec.val, "PARTNER_DISCONNECTED", TRUE)>>
                      ELSE <<>>),
                  FALSE)

\* context.args: the words after /report, none or some
ReportArgs == {<<>>, <<"reason">>}

report(d, sp, t, u, args) ==
    LET partner_id == get_current_chat(d, u)
        cr == create_report(d, u, partner_id)
    IN  IF ~is_in_chat(d, u)
        THEN Done(d, sp, <<Msg(u, "REPORT_NO_CHAT", FALSE)>>, FALSE)
        ELSE IF args = <<>>
        THEN Done(d, sp, <<Msg(u, "REPORT_INSTRUCTION", FALSE)>>, FALSE)
        ELSE IF partner_id = None
        THEN Done(d, sp, <<>>, FALSE)
        ELSE IF ~cr.ok
        THEN Done(cr.db, sp, <<>>, TRUE)
        ELSE Done(cr.db, sp, <<Msg(u, "REPORT_SUBMITTED", FALSE)>>, FALSE)

help_command(d, sp, t, u) ==
    Done(d, sp, <<Msg(u, "HELP_MESSAGE", FALSE)>>, FALSE)

\* The text of a message: one of the three keyboard buttons, or anything
\* else.  copy_message to the partner is inside try/except; when it fails
\* (the partner is in `down`) the sender is told.
MessageTexts == {"BTN_START_SEARCH", "BTN_END_CHAT", "BTN_HELP", "text"}

handle_message(d, sp, t, u, text, down) ==
    LET rate == check_message_rate(sp, u, t)
        partner_id == get_current_chat(d, u)
    IN  IF text = "BTN_START_SEARCH" THEN search(d, sp, t, u)
        ELSE IF text = "BTN_END_CHAT" THEN end_chat_handler(d, sp, t, u)
        ELSE IF text = "BTN_HELP" THEN help_command(d, sp, t, u)
        ELSE IF is_blocked(d, u)
        THEN Done(d, sp, <<Msg(u, "BLOCKED_USER", FALSE)>>, FALSE)
        ELSE IF ~is_in_chat(d, u)
        THEN Done(d, sp, <<Msg(u, "NOT_IN_CHAT", FALSE)>>, FALSE)
        ELSE IF ~rate.val
        THEN Done(d, rate.spam, <<Msg(u, "SPAM_WARNING", FALSE)>>, FALSE)
        ELSE IF partner_id = None
        THEN Done(d, rate.spam, <<Msg(u, "NOT_IN_CHAT", FALSE)>>, FALSE)
        ELSE Done(d, rate.spam,
                  <<Msg(partner_id, "copy_message", TRUE)>>
                  \o (IF partner_id \in down
                      THEN <<Msg(u, "FORWARD_FAILED", FALSE)>>
                      ELSE <<>>),
                  FALSE)

\* ---------------------------------------------------------------- admin.py

is_admin(c) == c \in ADMIN_IDS

\* a block that leaves the waiting queue alone
admin_block_keeps_queue(d, sp, t, c, u) ==
    LET b  == block_user(d, u)
        ec == end_chat(b.db, u)
    IN  IF ~is_admin(c)
        THEN Done(d, sp, <<Msg(c, "NOT_ADMIN", FALSE)>>, FALSE)
        ELSE IF ~user_exists(d, u)
        THEN Done(d, sp, <<Msg(c, "USER_NOT_FOUND", FALSE)>>, FALSE)
        ELSE IF ~ec.ok
        THEN Done(ec.db, sp, <<>>, TRUE)
        ELSE Done(ec.db, sp, <<Msg(c, "ADMIN_USER_BLOCKED", FALSE)>>, FALSE)

admin_block(d, sp, t, c, u) ==
    LET b  == block_user(d, u)
        ec == end_chat(b.db, u)
        d3 == remove_from_queue(ec.db, u)
    IN  IF ~is_admin(c)
        THEN Done(d, sp, <<Msg(c, "NOT_ADMIN", FALSE)>>, FALSE)
        ELSE IF ~user_exists(d, u)
        THEN Done(d, sp, <<Msg(c, "USER_NOT_FOUND", FALSE)>>, FALSE)
        ELSE IF ~ec.ok
        THEN Done(ec.db, sp, <<>>, TRUE)
        ELSE Done(d3, sp, <<Msg(c, "ADMIN_USER_BLOCKED", FALSE)>>, FALSE)

admin_unblock(d, sp, t, c, u) ==
    IF ~is_admin(c)
    THEN Done(d, sp, <<Msg(c, "NOT_ADMIN", FALSE)>>, FALSE)
    ELSE IF ~user_exists(d, u)
    THEN Done(d, sp, <<Msg(c, "USER_NOT_FOUND", FALSE)>>, FALSE)
    ELSE Done(unblock_user(d, u).db, sp,
              <<Msg(c, "ADMIN_USER_UNBLOCKED", FALSE)>>, FALSE)

\* context.args: the words after /admin_broadcast, none or some
BroadcastArgs == {<<>>, <<"text">>}

\* every send_message of the loop is inside try/except; sent_count counts
\* the sends that did not raise; the closing reply carries it
admin_broadcast(d, sp, t, c, args, down) ==
    LET user_ids == get_all_user_ids(d)
        sent_count == Cardinality({i \in 1 .. Len(user_ids) : user_ids[i] \notin down})
    IN  IF ~is_admin(c)
        THEN Done(d, sp, <<Msg(c, "NOT_ADMIN", FALSE)>>, FALSE)
        ELSE IF args = <<>>
        THEN Done(d, sp, <<Msg(c, "BROADCAST_USAGE", FALSE)>>, FALSE)
        ELSE Done(d, sp,
                  [i \in 1 .. Len(user_ids) |-> Msg(user_ids[i], "BROADCAST", TRUE)]
                  \o <<[to |-> c, kind |-> "ADMIN_BROADCAST_SENT",
                        caught |-> FALSE, count |-> sent_count]>>,
                  FALSE)

\* ------------------------------------------------------------ state machine

EmptyDb ==
    [users |-> <<>>, active_chats |-> EmptyBag,
     reports |-> <<>>, waiting_queue |-> <<>>]

EmptySpam == [message_history |-> <<>>, command_history |-> <<>>]

NoObs == [mode |-> "none", ids |-> {}, pending |-> {}, log |-> <<>>]

Init ==
    /\ db = EmptyDb
    /\ spam = EmptySpam
    /\ now = 0
    /\ obs = NoObs

\* the handler's result becomes the next state
Handle(r) ==
    /\ db' = r.db
    /\ spam' = r.spam
    /\ UNCHANGED now

\* bounds on the counters the handlers only ever increase
WithinBounds(d) ==
    /\ BagCardinality(d.active_chats) <= MaxChatDocs
    /\ \A u \in DOMAIN d.users : d.users[u].total_chats <= MaxTotalChats

Start(u) ==
    /\ Handle(start(db, spam, now, u))
    /\ UNCHANGED obs

Search(u) ==
    /\ WithinBounds(search(db, spam, now, u).db)
    /\ Handle(search(db, spam, now, u))
    /\ UNCHANGED obs

EndChat(u) ==
    /\ Handle(end_chat_handler(db, spam, now, u))
    /\ UNCHANGED obs

AdminBlock(c, u) ==
    /\ Handle(admin_block(db, spam, now, c, u))
    /\ UNCHANGED obs

AdminUnblock(c, u) ==
    /\ Handle(admin_unblock(db, spam, now, c, u))
    /\ UNCHANGED obs

Tick ==
    /\ now < MaxTime
    /\ now' = now + 1
    /\ UNCHANGED <<db, spam, obs>>

Next ==
    \/ \E u \in Ids : Start(u)
    \/ \E u \in Ids : Search(u)
    \/ \E u \in Ids : EndChat(u)
    \/ \E c \in Ids, u \in Ids : AdminBlock(c, u)
    \/ \E c \in Ids, u \in Ids : AdminUnblock(c, u)
    \/ Tick

Spec == Init /\ [][Next]_vars

\* ------------------------------------------------------------- vocabulary

\* the stored fields, read straight from the documents
Partner(d, u) ==
    IF u \in DOMAIN d.users THEN d.users[u].current_chat_with ELSE None

Blocked(d, u) == u \in DOMAIN d.users /\ d.users[u].blocked

Queued(d, u) == \E i \in 1 .. Len(d.waiting_queue) : d.waiting_queue[i] = u

\* the number of active_chats documents that name u
NumSessionsWith(d, u) ==
    BagCardinality(d.active_chats)
        - BagCardinality(DeleteChats(DeleteChats(d.active_chats, 1, u), 2, u))

SessionBetween(d, a, b) ==
    BagIn(<<a, b>>, d.active_chats) \/ BagIn(<<b, a>>, d.active_chats)

NumSessions(d) == BagCardinality(d.active_chats)

\* ------------------------------------------------- the queue collection
\* The handlers never let waiting_queue hold two entries (a search that
\* finds an entry takes it), so the ordering of the queue is exercised on
\* the Database interface itself: add_to_queue called for any idle identity.

NumQueueIds == 4
QIds == 1 .. NumQueueIds

\* the active_chats documents a handler added
NewChats(d, e) ==
    {c \in DOMAIN e.active_chats : CopiesIn(c, e.active_chats) > CopiesIn(c, d.active_chats)}

\* search calls add_to_queue only for an identity it found neither in a
\* chat nor in the queue
QAdd(u) ==
    /\ ~is_in_chat(db, u)
    /\ ~is_in_queue(db, u)
    /\ db' = add_to_queue(db, u)
    /\ UNCHANGED <<spam, now, obs>>

\* search, noting the queue it found and the partner it handed out
QSearch(u) ==
    LET r == search(db, spam, now, u)
    IN  /\ WithinBounds(r.db)
        /\ Handle(r)
        /\ obs' = IF NewChats(db, r.db) # {}
                  THEN [mode |-> "fifo",
                        ids |-> {c[2] : c \in NewChats(db, r.db)},
                        pending |-> {},
                        log |-> db.waiting_queue]
                  ELSE obs

\* every identity has sent /start
InitQueue ==
    /\ db = [EmptyDb EXCEPT !.users = [u \in QIds |-> NewUser]]
    /\ spam = EmptySpam
    /\ now = 0
    /\ obs = NoObs

NextQueue ==
    \/ \E u \in QIds : QAdd(u)
    \/ \E u \in QIds : QSearch(u)

SpecQueue == InitQueue /\ [][NextQueue]_vars

\* ------------------------------------------------ a batch of searches
\* N identities, none blocked, paired, queued or inside its command
\* cooldown, each send one search while the queue is empty; the searches
\* are handled in any order and nothing else is.

Eligible(u) ==
    /\ ~Blocked(db, u)
    /\ Partner(db, u) = None
    /\ CooldownAllows(spam, u, now)

BeginBatch(S) ==
    /\ obs = NoObs
    /\ S # {}
    /\ db.waiting_queue = <<>>
    /\ \A u \in S : Eligible(u)
    /\ obs' = [mode |-> "batch", ids |-> S, pending |-> S, log |-> <<>>]
    /\ UNCHANGED <<db, spam, now>>

BatchSearch(u) ==
    /\ obs.mode = "batch"
    /\ u \in obs.pending
    /\ Handle(search(db, spam, now, u))
    /\ obs' = [obs EXCEPT !.pending = @ \ {u}]

NextBatch ==
    \/ obs = NoObs /\ \E u \in Ids : Start(u)
    \/ obs = NoObs /\ \E u \in Ids : Search(u)
    \/ obs = NoObs /\ \E u \in Ids : EndChat(u)
    \/ obs = NoObs /\ Tick
    \/ \E S \in SUBSET Ids : BeginBatch(S)
    \/ \E u \in Ids : BatchSearch(u)

SpecBatch == Init /\ [][NextBatch]_vars

\* ------------------------------------- two searches by one identity
\* The identity's two updates are handled one right after the other;
\* time may pass while the first is being handled.

SearchEffect(d, e, u) ==
    IF NewChats(d, e) # {} THEN "paired"
    ELSE IF InQueue(e.waiting_queue, u) /\ ~InQueue(d.waiting_queue, u) THEN "queued"
    ELSE "none"

TwiceFirst(u) ==
    LET r == search(db, spam, now, u)
    IN  /\ obs = NoObs
        /\ SearchEffect(db, r.db, u) # "none"
        /\ WithinBounds(r.db)
        /\ Handle(r)
        /\ obs' = [mode |-> "twice", ids |-> {u}, pending |-> {u},
                   log |-> <<SearchEffect(db, r.db, u)>>]

TwiceTick ==
    /\ obs.mode = "twice"
    /\ obs.pending # {}
    /\ Tick

TwiceSecond(u) ==
    /\ obs.mode = "twice"
    /\ u \in obs.pending
    /\ WithinBounds(search(db, spam, now, u).db)
    /\ Handle(search(db, spam, now, u))
    /\ obs' = [obs EXCEPT !.pending = {}]

NextTwice ==
    \/ obs = NoObs /\ \E u \in Ids : Start(u)
    \/ obs = NoObs /\ \E u \in Ids : Search(u)
    \/ obs = NoObs /\ \E u \in Ids : EndChat(u)
    \/ obs = NoObs /\ Tick
    \/ \E u \in Ids : TwiceFirst(u)
    \/ TwiceTick
    \/ \E u \in Ids : TwiceSecond(u)

SpecTwice == Init /\ [][NextTwice]_vars

\* ------------------------------------------- a block racing a search
\* admin_block(id) and a search that involves id (id searches, or id is
\* the oldest queue entry when the pair of updates arrives) are handled one
\* right after the other, in either order.  id has met the bot before: it
\* has a user document or a queue entry.

Involves(x, id) == x = id \/ get_next_from_queue(db) = id

Known(u) == user_exists(db, u) \/ is_in_queue(db, u)

BeginRace(x, id) ==
    /\ obs = NoObs
    /\ Involves(x, id)
    /\ Known(id)
    /\ obs' = [mode |-> "race", ids |-> {id}, pending |-> {"block", "search"},
               log |-> <<x>>]
    /\ UNCHANGED <<db, spam, now>>

RaceBlock(c, id) ==
    /\ obs.mode = "race"
    /\ "block" \in obs.pending
    /\ id \in obs.ids
    /\ is_admin(c)
    /\ Handle(admin_block(db, spam, now, c, id))
    /\ obs' = [obs EXCEPT !.pending = @ \ {"block"}]

RaceSearch(x) ==
    /\ obs.mode = "race"
    /\ "search" \in obs.pending
    /\ x = obs.log[1]
    /\ WithinBounds(search(db, spam, now, x).db)
    /\ Handle(search(db, spam, now, x))
    /\ obs' = [obs EXCEPT !.pending = @ \ {"search"}]

NextRace ==
    \/ obs = NoObs /\ \E u \in Ids : Start(u)
    \/ obs = NoObs /\ \E u \in Ids : Search(u)
    \/ obs = NoObs /\ \E u \in Ids : EndChat(u)
    \/ obs = NoObs /\ \E c \in Ids, u \in Ids : AdminBlock(c, u)
    \/ obs = NoObs /\ Tick
    \/ \E x \in Ids, id \in Ids : BeginRace(x, id)
    \/ \E c \in Ids, id \in Ids : RaceBlock(c, id)
    \/ \E x \in Ids : RaceSearch(x)

SpecRace == Init /\ [][NextRace]_vars

\* --------------------------------------- two end commands by one identity
\* The identity ends its search or its chat, the handler returning
\* normally, and its next update, handled right after, is another end.

EndReply(r) == IF r.msgs = <<>> THEN "raised" ELSE r.msgs[1].kind

EndFirst(u) ==
    LET r == end_chat_handler(db, spam, now, u)
    IN  /\ obs = NoObs
        /\ EndReply(r) \in {"SEARCH_CANCELLED", "YOU_DISCONNECTED"}
        /\ Handle(r)
        /\ obs' = [mode |-> "end", ids |-> {u}, pending |-> {u},
                   log |-> <<EndReply(r)>>]

EndSecond(u) ==
    /\ obs.mode = "end"
    /\ u \in obs.pending
    /\ Handle(end_chat_handler(db, spam, now, u))
    /\ obs' = [obs EXCEPT !.pending = {}]

NextEnd ==
    \/ obs = NoObs /\ \E u \in Ids : Start(u)
    \/ obs = NoObs /\ \E u \in Ids : Search(u)
    \/ obs = NoObs /\ \E u \in Ids : EndChat(u)
    \/ obs = NoObs /\ Tick
    \/ \E u \in Ids : EndFirst(u)
    \/ \E u \in Ids : EndSecond(u)

SpecEnd == Init /\ [][NextEnd]_vars

\* ------------------------------------------------ cancelling a search
\* As for the queue collection above, with the end command of identities
\* that are not in a chat; obs.ids holds the identities that cancelled
\* their search and have not been enqueued or searched since.

CAdd(u) ==
    /\ ~is_in_chat(db, u)
    /\ ~is_in_queue(db, u)
    /\ db' = add_to_queue(db, u)
    /\ obs' = [obs EXCEPT !.ids = @ \ {u}]
    /\ UNCHANGED <<spam, now>>

CSearch(u) ==
    /\ WithinBounds(search(db, spam, now, u).db)
    /\ Handle(search(db, spam, now, u))
    /\ obs' = [obs EXCEPT !.ids = @ \ {u}]

CEnd(u) ==
    LET r == end_chat_handler(db, spam, now, u)
    IN  /\ ~is_in_chat(db, u)
        /\ Handle(r)
        /\ obs' = IF EndReply(r) = "SEARCH_CANCELLED"
                  THEN [mode |-> "cancel", ids |-> obs.ids \cup {u},
                        pending |-> {}, log |-> db.waiting_queue]
                  ELSE obs

NextCancel ==
    \/ \E u \in QIds : CAdd(u)
    \/ \E u \in QIds : CSearch(u)
    \/ \E u \in QIds : CEnd(u)

SpecCancel == InitQueue /\ [][NextCancel]_vars

\* ------------------------------------------------- the message limiter
\* check_message_rate called for any identity at any time; the clock moves
\* in steps of RateStep seconds up to MaxRateTime.

NumRateIds == 2
RateStep == 30
MaxRateTime == 60
RateIds == 1 .. NumRateIds

RateCall(u) ==
    /\ spam' = check_message_rate(spam, u, now).spam
    /\ UNCHANGED <<db, now, obs>>

RateTick ==
    /\ now + RateStep <= MaxRateTime
    /\ now' = now + RateStep
    /\ UNCHANGED <<db, spam, obs>>

NextRate ==
    \/ \E u \in RateIds : RateCall(u)
    \/ RateTick

SpecRate == Init /\ [][NextRate]_vars

\* ------------------------------------------------- the command cooldown
\* check_command_cooldown called for any identity at any time; obs.log keeps
\* the last call: the last-command time it found (-1 for none), the time of
\* the call and its answer.

LastCommand(sp, u) ==
    IF u \in DOMAIN sp.command_history THEN sp.command_history[u] ELSE -1

CooldownCall(u) ==
    LET r == check_command_cooldown(spam, u, now)
    IN  /\ spam' = r.spam
        /\ obs' = [mode |-> "cooldown", ids |-> {u}, pending |-> {},
                   log |-> <<LastCommand(spam, u), now, r.val>>]
        /\ UNCHANGED <<db, now>>

NextCooldown ==
    \/ \E u \in Ids : CooldownCall(u)
    \/ Tick

SpecCooldown == Init /\ [][NextCooldown]_vars

\* ---------------------------------------------------- relaying messages
\* The handlers with handle_message, all within one second (the clock does
\* not move, so every message stays inside the limiter's window).  The
\* transport delivers or fails; which it does changes only what is sent.

Message(u, text) ==
    /\ \E down \in {{}, Ids} :
           /\ WithinBounds(handle_message(db, spam, now, u, text, down).db)
           /\ Handle(handle_message(db, spam, now, u, text, down))
    /\ UNCHANGED obs

NextRelay ==
    \/ \E u \in Ids : Start(u)
    \/ \E u \in Ids : Search(u)
    \/ \E u \in Ids : EndChat(u)
    \/ \E c \in Ids, u \in Ids : AdminBlock(c, u)
    \/ \E u \in Ids, text \in MessageTexts : Message(u, text)

SpecRelay == Init /\ [][NextRelay]_vars

\* the copy_message calls among a handler's messages
Forwards(msgs) == {i \in 1 .. Len(msgs) : msgs[i].kind = "copy_message"}

\* the limiter's window of u is full
WindowFull(u) ==
    Cardinality({i \in 1 .. Len(MessageHistory(spam, u)) :
                    now - MessageHistory(spam, u)[i] < ONE_MINUTE})
        >= MAX_MESSAGES_PER_MINUTE

\* ------------------------------------------------------------- reporting
\* The chat handlers with report; at most MaxReports reports are filed.

MaxReports == 2

Report(u, args) ==
    /\ Len(report(db, spam, now, u, args).db.reports) <= MaxReports
    /\ Handle(report(db, spam, now, u, args))
    /\ UNCHANGED obs

NextReport ==
    \/ \E u \in Ids : Start(u)
    \/ \E u \in Ids : Search(u)
    \/ \E u \in Ids : EndChat(u)
    \/ \E u \in Ids, args \in ReportArgs : Report(u, args)
    \/ Tick

SpecReport == Init /\ [][NextReport]_vars

ReportsCount(d, u) ==
    IF u \in DOMAIN d.users THEN d.users[u].reports_count ELSE 0

\* ------------------------------------------------------------ broadcasts
\* Registration, blocking and unblocking, and admin_broadcast with any set
\* of unreachable recipients; obs keeps the last broadcast: whom it tried
\* (ids), who was unreachable (pending) and the count it reported (log).

Attempts(msgs, down) ==
    {i \in 1 .. Len(Deliver(msgs, down)) : Deliver(msgs, down)[i].kind = "BROADCAST"}

Broadcast(c, args, down) ==
    LET r == admin_broadcast(db, spam, now, c, args, down)
        sent == Deliver(r.msgs, down)
    IN  /\ Handle(r)
        /\ obs' = IF is_admin(c) /\ args # <<>>
                  THEN [mode |-> "broadcast",
                        ids |-> {sent[i].to : i \in Attempts(r.msgs, down)},
                        pending |-> down,
                        log |-> <<r.msgs[Len(r.msgs)].count>>]
                  ELSE obs

NextBroadcast ==
    \/ \E u \in Ids : Start(u)
    \/ \E c \in Ids, u \in Ids : AdminBlock(c, u)
    \/ \E c \in Ids, u \in Ids : AdminUnblock(c, u)
    \/ \E c \in Ids, args \in BroadcastArgs, down \in SUBSET Ids :
           Broadcast(c, args, down)

SpecBroadcast == Init /\ [][NextBroadcast]_vars

\* ------------------------------------------- both tracks of the limiter
\* check_message_rate and check_command_cooldown called for any identity,
\* the clock moving a minute at a time.

LimiterMessage(u) ==
    /\ spam' = check_message_rate(spam, u, now).spam
    /\ UNCHANGED <<db, now, obs>>

LimiterCommand(u) ==
    /\ spam' = check_command_cooldown(spam, u, now).spam
    /\ UNCHANGED <<db, now, obs>>

LimiterTick ==
    /\ now + ONE_MINUTE <= MaxRateTime
    /\ now' = now + ONE_MINUTE
    /\ UNCHANGED <<db, spam, obs>>

NextLimiter ==
    \/ \E u \in RateIds : LimiterMessage(u)
    \/ \E u \in RateIds : LimiterCommand(u)
    \/ LimiterTick

SpecLimiter == Init /\ [][NextLimiter]_vars

\* ------------------------------------------------------------------ claims

\* C1: once every search of a batch has been handled, no identity of the
\* batch is named by two sessions, only batch identities are queued, and
\* the queue holds one identity if N is odd and none if N is even.
C1_BatchIsMatching ==
    (obs.mode = "batch" /\ obs.pending = {}) =>
        /\ \A u \in obs.ids : NumSessionsWith(db, u) <= 1
        /\ \A u \in Ids : Queued(db, u) => u \in obs.ids
        /\ Len(db.waiting_queue) = Cardinality(obs.ids) % 2

\* C6: the second of two searches by one identity, the first having
\* enqueued it or formed a pairing, is turned away (by the cooldown, or as
\* already searching or already in chat) and changes nothing in the store.
C6_SecondSearchRejected ==
    [][\A u \in Ids :
          TwiceSecond(u) =>
              /\ db' = db
              /\ \E k \in {"COOLDOWN", "ALREADY_SEARCHING", "ALREADY_IN_CHAT"} :
                     search(db, spam, now, u).msgs = <<Msg(u, k, FALSE)>>]_vars

\* C7: every partner a search hands out is the oldest entry of the queue
\* the search found: no identity is taken while one enqueued before it
\* still waits.
C7_Fifo ==
    obs.mode = "fifo" =>
        /\ obs.log # <<>>
        /\ obs.ids = {Head(obs.log)}

\* a search has taken A out of the queue [A, B, C]
C7_Witness ==
    /\ obs.mode = "fifo"
    /\ Len(obs.log) = 3
    /\ \E u \in QIds : Partner(db, u) = obs.log[1] /\ Partner(db, obs.log[1]) = u

\* C8: after admin_block(id) and a search involving id have both been
\* handled, in either order, id is blocked, neither queued nor paired, and
\* no identity has a partner that does not point back.
C8_BlockRaceConsistent ==
    (obs.mode = "race" /\ obs.pending = {}) =>
        \A id \in obs.ids :
            /\ Blocked(db, id)
            /\ ~Queued(db, id)
            /\ Partner(db, id) = None
            /\ \A a \in Ids :
                   Partner(db, a) # None => Partner(db, Partner(db, a)) = a

\* C2: a search that hands out a partner takes the oldest queue entry and
\* removes it in the same step: the partner is the head of the queue, is no
\* longer queued afterwards, and the queue loses exactly that one entry, so
\* no other searcher can obtain it.
C2_AtomicDequeue ==
    [][\A u \in Ids :
          (Search(u) /\ NumSessions(db') > NumSessions(db)) =>
              LET p == Head(db.waiting_queue)
              IN  /\ db.waiting_queue # <<>>
                  /\ SessionBetween(db', u, p)
                  /\ ~Queued(db', p)
                  /\ db'.waiting_queue = Tail(db.waiting_queue)]_vars

C2_Witness ==
    \E a, b \in Ids :
        /\ BagIn(<<a, b>>, db.active_chats)
        /\ Partner(db, a) = b /\ Partner(db, b) = a
        /\ ~Queued(db, b)

\* C3: currentPartner is symmetric in every reachable state: if A's
\* current_chat_with is B then B's is A.
C3_Symmetric ==
    \A a \in Ids :
        Partner(db, a) # None => Partner(db, Partner(db, a)) = a

\* C4: an active_chats document for {A, B} exists iff A and B point at
\* each other, and no identity is named by more than one document.
C4_SessionIffMutual ==
    /\ \A a, b \in Ids :
           a # b => (SessionBetween(db, a, b)
                       <=> (Partner(db, a) = b /\ Partner(db, b) = a))
    /\ \A u \in Ids : NumSessionsWith(db, u) <= 1

\* C5: no queued identity has a partner, and the queue holds at most one
\* entry per identity.
C5_QueuedIsUnpaired ==
    /\ \A u \in Ids : Queued(db, u) => Partner(db, u) = None
    /\ \A i, j \in 1 .. Len(db.waiting_queue) :
           db.waiting_queue[i] = db.waiting_queue[j] => i = j

C5_Witness ==
    /\ db.waiting_queue # <<>>
    /\ \E a, b \in Ids : Partner(db, a) = b /\ Partner(db, b) = a

\* C9: blocking a paired identity (both members having user documents)
\* deletes its session, clears the former partner's current_chat_with and
\* sends the former partner a disconnect notification.
C9_BlockEndsSession ==
    [][\A c, u \in Ids :
          (AdminBlock(c, u) /\ is_admin(c) /\ user_exists(db, u)
              /\ Partner(db, u) # None /\ user_exists(db, Partner(db, u))) =>
              LET p == Partner(db, u)
                  msgs == admin_block(db, spam, now, c, u).msgs
              IN  /\ NumSessionsWith(db', u) = 0
                  /\ Partner(db', p) = None
                  /\ \E i \in 1 .. Len(msgs) :
                         /\ msgs[i].to = p
                         /\ msgs[i].kind = "PARTNER_DISCONNECTED"]_vars

\* C10: while an identity is blocked it is neither queued nor paired, and
\* its search is answered BLOCKED_USER and changes nothing.
C10_BlockedStaysOut ==
    \A u \in Ids :
        Blocked(db, u) =>
            /\ ~Queued(db, u)
            /\ Partner(db, u) = None
            /\ search(db, spam, now, u)
                 = Done(db, spam, <<Msg(u, "BLOCKED_USER", FALSE)>>, FALSE)

\* a blocked identity that had been paired, while another identity waits
C10_Witness ==
    \E u \in Ids :
        /\ Blocked(db, u)
        /\ db.users[u].total_chats > 0
        /\ db.waiting_queue # <<>>

\* C11: the end command that follows a successful end by the same identity
\* (of its search or of its chat) is answered NOT_IN_CHAT to that identity
\* alone and changes nothing in the store.
C11_EndIdempotent ==
    [][\A u \in Ids :
          EndSecond(u) =>
              /\ db' = db
              /\ end_chat_handler(db, spam, now, u).msgs
                   = <<Msg(u, "NOT_IN_CHAT", FALSE)>>]_vars

\* both end commands handled, the first having ended a chat
C11_Witness ==
    /\ obs.mode = "end"
    /\ obs.pending = {}
    /\ obs.log = <<"YOU_DISCONNECTED">>

\* C12: the end command of an identity whose current_chat_with is set
\* clears that field for it and for its partner, leaves no active_chats
\* document naming it, replies YOU_DISCONNECTED and sends the partner a
\* PARTNER_DISCONNECTED whose failure is caught; neither is queued after.
C12_EndClearsBoth ==
    [][\A u \in Ids :
          (EndChat(u) /\ Partner(db, u) # None) =>
              LET p == Partner(db, u)
              IN  /\ Partner(db', u) = None
                  /\ Partner(db', p) = None
                  /\ NumSessionsWith(db', u) = 0
                  /\ ~Queued(db', u) /\ ~Queued(db', p)
                  /\ end_chat_handler(db, spam, now, u).msgs
                       = <<Msg(u, "YOU_DISCONNECTED", FALSE),
                           Msg(p, "PARTNER_DISCONNECTED", TRUE)>>]_vars

\* C13: the end command of a queued identity takes exactly its entry out of
\* the queue, keeps the other entries in order, leaves users and
\* active_chats as they were and replies to it alone; and until it is
\* enqueued again it is not queued, has no partner and is nobody's partner.
C13_CancelFrame ==
    [][/\ \A u \in QIds :
            (CEnd(u) /\ Queued(db, u)) =>
                /\ db' = [db EXCEPT !.waiting_queue = Without(db.waiting_queue, u)]
                /\ Len(db'.waiting_queue) = Len(db.waiting_queue) - 1
                /\ end_chat_handler(db, spam, now, u).msgs
                     = <<Msg(u, "SEARCH_CANCELLED", FALSE)>>
       /\ \A u \in obs'.ids :
            /\ ~Queued(db', u)
            /\ Partner(db', u) = None
            /\ \A x \in QIds : Partner(db', x) # u]_vars

\* the middle entry of a queue of three cancelled, and a pairing formed
\* from the remaining queue afterwards
C13_Witness ==
    /\ obs.mode = "cancel"
    /\ Len(obs.log) = 3
    /\ obs.log[2] \in obs.ids
    /\ Partner(db, obs.log[1]) # None

\* C14 as stated: a search by an identity with a partner is answered
\* ALREADY_IN_CHAT, and by a queued identity ALREADY_SEARCHING, and it
\* changes nothing in the store.
C14_AsStated ==
    \A u \in Ids :
        LET r == search(db, spam, now, u)
        IN  /\ Partner(db, u) # None =>
                   /\ r.db = db
                   /\ r.msgs = <<Msg(u, "ALREADY_IN_CHAT", FALSE)>>
            /\ (Partner(db, u) = None /\ Queued(db, u)) =>
                   /\ r.db = db
                   /\ r.msgs = <<Msg(u, "ALREADY_SEARCHING", FALSE)>>

\* C14: a search by an identity with a partner, or by a queued identity,
\* changes nothing in the store and is answered to that identity alone:
\* with the cooldown message while its command cooldown runs, and with
\* ALREADY_IN_CHAT (partner set) or ALREADY_SEARCHING (queued) otherwise.
C14_IllegalSearchRejected ==
    \A u \in Ids :
        LET cooling == /\ u \in DOMAIN spam.command_history
                       /\ now < spam.command_history[u] + COMMAND_COOLDOWN_SECONDS
            r == search(db, spam, now, u)
        IN  /\ Partner(db, u) # None =>
                   /\ r.db = db
                   /\ r.msgs = <<Msg(u, IF cooling THEN "COOLDOWN"
                                         ELSE "ALREADY_IN_CHAT", FALSE)>>
            /\ (Partner(db, u) = None /\ Queued(db, u)) =>
                   /\ r.db = db
                   /\ r.msgs = <<Msg(u, IF cooling THEN "COOLDOWN"
                                         ELSE "ALREADY_SEARCHING", FALSE)>>

\* u was taken from the queue by p's search at time 0 and is still p's
\* partner; u's own search at time 3 was let through by the cooldown and
\* turned away
C14_Witness ==
    \E u, p \in Ids :
        /\ BagIn(<<p, u>>, db.active_chats)
        /\ Partner(db, u) = p /\ Partner(db, p) = u
        /\ p \in DOMAIN spam.command_history /\ spam.command_history[p] = 0
        /\ u \in DOMAIN spam.command_history
        /\ spam.command_history[u] = COMMAND_COOLDOWN_SECONDS

\* C15: a search or an end command in which a Firestore write raises
\* commits nothing: the store is as the handler found it (no queue entry
\* taken, no active_chats document written, no current_chat_with changed).
C15_AllOrNothing ==
    [][\A u \in Ids :
          /\ (Search(u) /\ search(db, spam, now, u).raised) => db' = db
          /\ (EndChat(u) /\ end_chat_handler(db, spam, now, u).raised) => db' = db]_vars

\* C16: check_message_rate accepts a call exactly when fewer than
\* MAX_MESSAGES_PER_MINUTE recorded timestamps of that identity lie inside
\* the trailing 60 seconds; an accepted call records the current time, a
\* refused one records nothing; timestamps 60 seconds old or older are
\* dropped and no longer count; other identities' windows are untouched.
\* So from an empty window 20 calls within a minute pass, the 21st is
\* refused, and after 60 seconds calls pass again.
C16_SlidingWindow ==
    \A u \in RateIds :
        LET hist == MessageHistory(spam, u)
            inside == {i \in 1 .. Len(hist) : now - hist[i] < ONE_MINUTE}
            r == check_message_rate(spam, u, now)
            after == r.spam.message_history[u]
        IN  /\ Len(hist) <= MAX_MESSAGES_PER_MINUTE
            /\ r.val <=> Cardinality(inside) < MAX_MESSAGES_PER_MINUTE
            /\ Len(after) = Cardinality(inside) + (IF r.val THEN 1 ELSE 0)
            /\ r.val => after[Len(after)] = now
            /\ \A i \in 1 .. Len(after) : now - after[i] < ONE_MINUTE
            /\ \A v \in RateIds \ {u} :
                   MessageHistory(r.spam, v) = MessageHistory(spam, v)

\* a window that filled up (20 accepted calls) and has now wholly expired,
\* next to an identity whose full window is still running
C16_Witness ==
    \E u, v \in RateIds :
        /\ Len(MessageHistory(spam, u)) = MAX_MESSAGES_PER_MINUTE
        /\ \A i \in 1 .. MAX_MESSAGES_PER_MINUTE :
               now - MessageHistory(spam, u)[i] >= ONE_MINUTE
        /\ Len(MessageHistory(spam, v)) = MAX_MESSAGES_PER_MINUTE
        /\ \A i \in 1 .. MAX_MESSAGES_PER_MINUTE :
               now - MessageHistory(spam, v)[i] < ONE_MINUTE
        /\ MessageHistory(spam, v)[1] < now

\* C17: check_command_cooldown refuses a call exactly when the identity has
\* a last-command time and now < last + COMMAND_COOLDOWN_SECONDS; it accepts
\* the first call ever and a call at exactly last + cooldown; an accepted
\* call sets the identity's last-command time to now and nothing else, a
\* refused call changes nothing.
C17_Cooldown ==
    \A u \in Ids :
        LET last == LastCommand(spam, u)
            r == check_command_cooldown(spam, u, now)
        IN  /\ r.val <=> (last = -1 \/ now >= last + COMMAND_COOLDOWN_SECONDS)
            /\ r.val => /\ LastCommand(r.spam, u) = now
                        /\ \A v \in Ids \ {u} :
                               LastCommand(r.spam, v) = LastCommand(spam, v)
                        /\ r.spam.message_history = spam.message_history
            /\ ~r.val => r.spam = spam

\* a call accepted at exactly last + cooldown, after refused calls that
\* left the last-command time where it was
C17_Witness ==
    /\ obs.mode = "cooldown"
    /\ obs.log = <<0, COMMAND_COOLDOWN_SECONDS, TRUE>>
    /\ \E u \in obs.ids : LastCommand(spam, u) = COMMAND_COOLDOWN_SECONDS

\* C18 as stated: a message from an identity without a partner is answered
\* NOT_IN_CHAT and nothing is forwarded; one refused by the limiter is
\* answered with the spam warning and nothing is forwarded; any other is
\* forwarded exactly once, to the sender's current_chat_with.
C18_AsStated ==
    \A u \in Ids, down \in SUBSET Ids :
        LET r == handle_message(db, spam, now, u, "text", down)
        IN  /\ r.db = db
            /\ Partner(db, u) = None =>
                   /\ Forwards(r.msgs) = {}
                   /\ r.msgs = <<Msg(u, "NOT_IN_CHAT", FALSE)>>
            /\ (Partner(db, u) # None /\ WindowFull(u)) =>
                   /\ Forwards(r.msgs) = {}
                   /\ r.msgs = <<Msg(u, "SPAM_WARNING", FALSE)>>
            /\ (Partner(db, u) # None /\ ~WindowFull(u)) =>
                   /\ Forwards(r.msgs) = {1}
                   /\ r.msgs[1].to = Partner(db, u)

\* C18: a message from an identity without a partner is never forwarded
\* and is answered NOT_IN_CHAT, or BLOCKED_USER when the identity is
\* blocked; one refused by the limiter is answered with the spam warning
\* and not forwarded; any other is forwarded exactly once, to the sender's
\* current_chat_with and to nobody else.
C18_RelayToPartnerOnly ==
    \A u \in Ids, down \in SUBSET Ids :
        LET r == handle_message(db, spam, now, u, "text", down)
        IN  /\ r.db = db
            /\ Partner(db, u) = None =>
                   /\ Forwards(r.msgs) = {}
                   /\ r.msgs = <<Msg(u, IF Blocked(db, u) THEN "BLOCKED_USER"
                                         ELSE "NOT_IN_CHAT", FALSE)>>
            /\ (Partner(db, u) # None /\ WindowFull(u)) =>
                   /\ Forwards(r.msgs) = {}
                   /\ r.msgs = <<Msg(u, "SPAM_WARNING", FALSE)>>
            /\ (Partner(db, u) # None /\ ~WindowFull(u)) =>
                   /\ Forwards(r.msgs) = {1}
                   /\ r.msgs[1].to = Partner(db, u)
                   /\ \A i \in 1 .. Len(r.msgs) : r.msgs[i].to \in {u, Partner(db, u)}

\* two identities that relayed messages to each other, one of them until
\* its window was full, and whose chat has ended since
C18_Witness ==
    \E u, v \in Ids :
        /\ u # v
        /\ WindowFull(u)
        /\ Len(MessageHistory(spam, v)) > 0
        /\ Partner(db, u) = None /\ Partner(db, v) = None
        /\ db.users[u].total_chats > 0 /\ db.users[v].total_chats > 0

\* C19: /report from an identity without a partner is answered
\* REPORT_NO_CHAT and writes nothing (no report document, no counter); a
\* /report answered REPORT_SUBMITTED has appended exactly one unresolved
\* report, from the reporter against its current_chat_with, and raised that
\* identity's reports_count by one; no /report ever appends a report
\* against anyone else.
C19_ReportOnlyPartner ==
    \A u \in Ids, args \in ReportArgs :
        LET r == report(db, spam, now, u, args)
            p == Partner(db, u)
            filed == [reporter_id |-> u, reported_id |-> p, resolved |-> FALSE]
        IN  /\ p = None =>
                   /\ r.db = db
                   /\ r.msgs = <<Msg(u, "REPORT_NO_CHAT", FALSE)>>
            /\ r.msgs = <<Msg(u, "REPORT_SUBMITTED", FALSE)>> =>
                   /\ p # None
                   /\ r.db.reports = Append(db.reports, filed)
                   /\ ReportsCount(r.db, p) = ReportsCount(db, p) + 1
                   /\ \A v \in Ids \ {p} : ReportsCount(r.db, v) = ReportsCount(db, v)
            /\ r.db.reports # db.reports =>
                   /\ p # None
                   /\ r.db.reports = Append(db.reports, filed)
            /\ \A i \in 1 .. Len(db.reports) :
                   /\ db.reports[i].reporter_id # db.reports[i].reported_id
                   /\ ~db.reports[i].resolved

\* a report against a partner on file, its counter raised, the chat over
C19_Witness ==
    \E u, p \in Ids :
        /\ Len(db.reports) > 0
        /\ db.reports[1] = [reporter_id |-> u, reported_id |-> p, resolved |-> FALSE]
        /\ ReportsCount(db, p) = 1
        /\ Partner(db, u) = None

\* C20: an admin's broadcast tries exactly one message to every identity
\* whose user document is not blocked and none to a blocked one, whichever
\* recipients are unreachable (no failure stops the loop), and the count it
\* reports is the number of recipients that were reachable.
C20_Broadcast ==
    \A c \in ADMIN_IDS, down \in SUBSET Ids :
        LET r == admin_broadcast(db, spam, now, c, <<"text">>, down)
            sent == Deliver(r.msgs, down)
            tries == Attempts(r.msgs, down)
            open == {u \in Ids : u \in DOMAIN db.users /\ ~db.users[u].blocked}
        IN  /\ r.db = db
            /\ \A u \in open : Cardinality({i \in tries : sent[i].to = u}) = 1
            /\ \A i \in tries : sent[i].to \in open
            /\ \A i \in tries : sent[i].ok <=> sent[i].to \notin down
            /\ r.msgs[Len(r.msgs)].kind = "ADMIN_BROADCAST_SENT"
            /\ r.msgs[Len(r.msgs)].count
                 = Cardinality({i \in tries : sent[i].ok})

\* a broadcast with one identity blocked and one of the two recipients
\* unreachable: both were tried, one was counted
C20_Witness ==
    /\ obs.mode = "broadcast"
    /\ Cardinality(obs.ids) = 2
    /\ Cardinality(obs.ids \cap obs.pending) = 1
    /\ obs.log = <<1>>
    /\ \E u \in Ids : Blocked(db, u)

\* C21: every identity that is in the queue, is some user's
\* current_chat_with or is named by an active_chats document has a user
\* document (its first contact, whatever the command, created one).
C21_RecordOnContact ==
    \A u \in Ids :
        (\/ Queued(db, u)
         \/ \E v \in Ids : Partner(db, v) = u
         \/ NumSessionsWith(db, u) > 0)
            => user_exists(db, u)

\* C22: a search by an identity that is not blocked, not paired, not
\* queued and past its cooldown either finds the queue empty, and then
\* appends the identity, writes nothing else and sends it one message; or
\* takes the oldest entry, adds one active_chats document for the two,
\* points them at each other, raises both total_chats by one, does not
\* enqueue the searcher and sends both a message.
C22_TwoOutcomes ==
    \A u \in Ids :
        (/\ ~Blocked(db, u) /\ Partner(db, u) = None /\ ~Queued(db, u)
         /\ LastCommand(spam, u) = -1
              \/ now >= LastCommand(spam, u) + COMMAND_COOLDOWN_SECONDS)
        =>
        LET r == search(db, spam, now, u)
            p == Head(db.waiting_queue)
        IN  IF db.waiting_queue = <<>>
            THEN /\ r.db = [db EXCEPT !.waiting_queue = <<u>>]
                 /\ r.msgs = <<Msg(u, "SEARCHING_MESSAGE", FALSE)>>
            ELSE /\ r.db.waiting_queue = Tail(db.waiting_queue)
                 /\ NumSessions(r.db) = NumSessions(db) + 1
                 /\ NewChats(db, r.db) = {<<u, p>>}
                 /\ Partner(r.db, u) = p /\ Partner(r.db, p) = u
                 /\ user_exists(db, u) /\ user_exists(db, p)
                 /\ r.db.users[u].total_chats = db.users[u].total_chats + 1
                 /\ r.db.users[p].total_chats = db.users[p].total_chats + 1
                 /\ r.msgs = <<Msg(u, "MATCHED_MESSAGE", FALSE),
                               Msg(p, "MATCHED_MESSAGE", FALSE)>>

\* C25: every identity's reports_count equals the number of report
\* documents that name it as reported_id.
C25_ReportAccounting ==
    \A u \in Ids :
        ReportsCount(db, u)
            = Cardinality({i \in 1 .. Len(db.reports) : db.reports[i].reported_id = u})

\* C23: no user's current_chat_with is its own identity and no
\* active_chats document names one identity twice, however searches are
\* interleaved (two in a row by one identity included); and the search of
\* the identity that is itself the oldest queue entry forms no chat and
\* leaves that identity in the queue.
C23_NoSelfPairing ==
    /\ \A u \in Ids :
           /\ Partner(db, u) # u
           /\ ~BagIn(<<u, u>>, db.active_chats)
    /\ \A u \in Ids :
           (db.waiting_queue # <<>> /\ Head(db.waiting_queue) = u) =>
               LET r == search(db, spam, now, u)
               IN  /\ NewChats(db, r.db) = {}
                   /\ Partner(r.db, u) = Partner(db, u)
                   /\ Queued(r.db, u)

\* an identity enqueued by its search at time 0 whose second search, at
\* time 3 and past the cooldown, found the identity itself as the oldest
\* entry
C23_Witness ==
    /\ obs.mode = "twice"
    /\ obs.pending = {}
    /\ obs.log = <<"queued">>
    /\ \E u \in obs.ids :
           /\ db.waiting_queue # <<>> /\ Head(db.waiting_queue) = u
           /\ LastCommand(spam, u) = COMMAND_COOLDOWN_SECONDS
           /\ Partner(db, u) = None

\* C24: no identity's message list ever holds more than
\* MAX_MESSAGES_PER_MINUTE timestamps; a refused check_message_rate leaves
\* the limiter as it was; check_message_rate changes neither any command
\* time nor another identity's list, and check_command_cooldown changes
\* neither any message list nor another identity's command time.
C24_LimiterTracks ==
    \A u \in RateIds :
        LET rm == check_message_rate(spam, u, now)
            rc == check_command_cooldown(spam, u, now)
        IN  /\ Len(MessageHistory(spam, u)) <= MAX_MESSAGES_PER_MINUTE
            /\ ~rm.val => rm.spam = spam
            /\ rm.spam.command_history = spam.command_history
            /\ \A v \in RateIds \ {u} :
                   MessageHistory(rm.spam, v) = MessageHistory(spam, v)
            /\ \A v \in RateIds :
                   MessageHistory(rc.spam, v) = MessageHistory(spam, v)
            /\ \A v \in RateIds \ {u} :
                   LastCommand(rc.spam, v) = LastCommand(spam, v)

\* one identity with a full window and a command time, beside one with
\* messages and no command yet
C24_Witness ==
    \E u, v \in RateIds :
        /\ Len(MessageHistory(spam, u)) = MAX_MESSAGES_PER_MINUTE
        /\ LastCommand(spam, u) >= 0
        /\ Len(MessageHistory(spam, v)) > 0
        /\ LastCommand(spam, v) = -1

====
